---- MODULE Spec2Model ----
(***************************************************************************)
(* Greedy spiral tiling of an m x n room with square tiles of side 4, 3,   *)
(* 2, 1 (src/assignment2.py).  The model follows                           *)
(* fill_room_spiral_tile_anchors_animated one loop iteration at a time.    *)
(* numpy arrays are heap objects: `heap` maps a reference to the array's   *)
(* contents, `grid` is the reference of the working array and `steps` is   *)
(* the list of references the function returns.                            *)
(***************************************************************************)
EXTENDS Integers, Sequences, FiniteSets

\* Largest room side explored; the smallest is -1 (one negative value).
MaxDim == 6

Dims == (-1)..MaxDim

VARIABLES m, n, pc, err, heap, grid, steps, sizeIdx, spiral, ai, log, passLog

vars == <<m, n, pc, err, heap, grid, steps, sizeIdx, spiral, ai, log, passLog>>

----------------------------------------------------------------------------
\* Python / numpy primitives

Min(a, b) == IF a < b THEN a ELSE b

Max(a, b) == IF a > b THEN a ELSE b

\* list(range(start, stop, step)) for step # 0
RECURSIVE PyRange(_, _, _)
PyRange(start, stop, step) ==
    IF (step > 0 /\ start >= stop) \/ (step < 0 /\ start <= stop)
    THEN << >>
    ELSE <<start>> \o PyRange(start + step, stop, step)

\* a scalar index i into an axis of length len is legal iff -len <= i < len
IndexOK(i, len) == -len <= i /\ i < len

\* negative scalar indices count from the end
NormIndex(i, len) == IF i < 0 THEN i + len ELSE i

\* one bound of a slice a:b on an axis of length len
ClipBound(v, len) == IF v < 0 THEN Max(v + len, 0) ELSE Min(v, len)

\* the indices selected by the slice a:b on an axis of length len
SliceRange(a, b, len) == ClipBound(a, len)..(ClipBound(b, len) - 1)

\* np.zeros((rows, cols), dtype=int), rows, cols >= 0
np_zeros(rows, cols) == [r \in 0..(rows - 1) |-> [c \in 0..(cols - 1) |-> 0]]

\* grid[x, y]
Cell(g, x, y, rows, cols) == g[NormIndex(x, rows)][NormIndex(y, cols)]

\* np.all(grid[x:x+size, y:y+size] == 0)
AllZero(g, x, y, size, rows, cols) ==
    \A r \in SliceRange(x, x + size, rows) :
        \A c \in SliceRange(y, y + size, cols) : g[r][c] = 0

\* grid[x:x+size, y:y+size] = size
SetSlice(g, x, y, size, rows, cols) ==
    [r \in 0..(rows - 1) |-> [c \in 0..(cols - 1) |->
        IF r \in SliceRange(x, x + size, rows) /\ c \in SliceRange(y, y + size, cols)
        THEN size ELSE g[r][c]]]

\* grid[x, y] = 1
SetCell(g, x, y, rows, cols) ==
    [g EXCEPT ![NormIndex(x, rows)][NormIndex(y, cols)] = 1]

\* steps.append(grid) without the copy: the list keeps the working array itself
GridCopy_alias(h, ref) == [heap |-> h, ref |-> ref]

\* grid.copy(): a new array object with the contents of the array ref
GridCopy(h, ref) == [heap |-> Append(h, h[ref]), ref |-> Len(h) + 1]

----------------------------------------------------------------------------
\* Module constants

\* sizes in ascending order
TILE_SIZES_ascending == <<1, 2, 3, 4>>

\* sizes without the unit tile
TILE_SIZES_nounit == <<4, 3, 2>>

TILE_SIZES == <<4, 3, 2, 1>>

----------------------------------------------------------------------------
\* spiral_tile_anchors

\* ring bounds that forget the tile size
RingInit_nosize(rows, cols, s) ==
    [top |-> 0, bottom |-> rows - 1, left |-> 0, right |-> cols - 1]

\* top, bottom, left, right = 0, m - tile_size, 0, n - tile_size
RingInit(rows, cols, s) ==
    [top |-> 0, bottom |-> rows - s, left |-> 0, right |-> cols - s]

\* loop test that looks at the columns only
RingNonEmpty_cols(b) == b.left <= b.right

\* while left <= right and top <= bottom
RingNonEmpty(b) == b.left <= b.right /\ b.top <= b.bottom

\* bottom row walked from the right end
BottomEdge_fromright(b, s) ==
    LET js == PyRange(b.right, b.left - 1, -s)
    IN  [i \in 1..Len(js) |-> <<b.bottom, js[i]>>]

\* bottom row, left to right
BottomEdge(b, s) ==
    LET js == PyRange(b.left, b.right + 1, s)
    IN  [i \in 1..Len(js) |-> <<b.bottom, js[i]>>]

\* right column, bottom - tile_size up to top
RightEdge(b, s) ==
    LET is == PyRange(b.bottom - s, b.top - 1, -s)
    IN  [i \in 1..Len(is) |-> <<is[i], b.right>>]

\* top row, right - tile_size down to left, only if there is more than one row
TopEdge(b, s) ==
    IF b.top < b.bottom
    THEN LET js == PyRange(b.right - s, b.left - 1, -s)
         IN  [i \in 1..Len(js) |-> <<b.top, js[i]>>]
    ELSE << >>

\* left column, top + tile_size to bottom (exclusive), only if more than one column
LeftEdge(b, s) ==
    IF b.left < b.right
    THEN LET is == PyRange(b.top + s, b.bottom, s)
         IN  [i \in 1..Len(is) |-> <<is[i], b.left>>]
    ELSE << >>

\* left += s; right -= s; top += s; bottom -= s
Shrink(b, s) ==
    [top |-> b.top + s, bottom |-> b.bottom - s,
     left |-> b.left + s, right |-> b.right - s]

\* the while loop: one ring per iteration
RECURSIVE Rings(_, _)
Rings(b, s) ==
    IF RingNonEmpty(b)
    THEN BottomEdge(b, s) \o RightEdge(b, s) \o TopEdge(b, s) \o LeftEdge(b, s)
         \o Rings(Shrink(b, s), s)
    ELSE << >>

spiral_tile_anchors(rows, cols, tile_size) ==
    Rings(RingInit(rows, cols, tile_size), tile_size)

----------------------------------------------------------------------------
\* fill_room_spiral_tile_anchors_animated

\* the size of the pass in progress (0 before the first pass)
size == IF sizeIdx = 0 THEN 0 ELSE TILE_SIZES[sizeIdx]

\* unit branch that does not look at the cell
UnitFree_always(g, x, y, rows, cols) == TRUE

\* if grid[x, y] == 0   (size == 1 branch)
UnitFree(g, x, y, rows, cols) == Cell(g, x, y, rows, cols) = 0

\* placement test that looks at the anchor cell and the bounds only
CanPlaceAt_anchoronly(g, x, y, s, rows, cols) ==
    /\ Cell(g, x, y, rows, cols) = 0
    /\ x + s <= rows /\ y + s <= cols

\* if grid[x, y] == 0: if x + size <= m and y + size <= n and np.all(...)
CanPlaceAt(g, x, y, s, rows, cols) ==
    /\ Cell(g, x, y, rows, cols) = 0
    /\ x + s <= rows /\ y + s <= cols
    /\ AllZero(g, x, y, s, rows, cols)

Init ==
    /\ m \in Dims
    /\ n \in Dims
    /\ pc = "call"
    /\ err = "none"
    /\ heap = << >>
    /\ grid = 0
    /\ steps = << >>
    /\ sizeIdx = 0
    /\ spiral = << >>
    /\ ai = 1
    /\ log = << >>
    /\ passLog = << >>

\* np.zeros raises ValueError for a negative dimension
ZerosRaises ==
    /\ pc = "call"
    /\ (m < 0 \/ n < 0)
    /\ pc' = "error"
    /\ err' = "ValueError"
    /\ UNCHANGED <<m, n, heap, grid, steps, sizeIdx, spiral, ai, log, passLog>>

\* grid = np.zeros((m, n), dtype=int); steps = []
Start ==
    /\ pc = "call"
    /\ m >= 0 /\ n >= 0
    /\ heap' = <<np_zeros(m, n)>>
    /\ grid' = 1
    /\ steps' = << >>
    /\ pc' = "loop"
    /\ UNCHANGED <<m, n, err, sizeIdx, spiral, ai, log, passLog>>

\* for size in TILE_SIZES: spiral = spiral_tile_anchors(m, n, size)
NextSize ==
    /\ pc = "loop"
    /\ ai > Len(spiral)
    /\ sizeIdx < Len(TILE_SIZES)
    /\ sizeIdx' = sizeIdx + 1
    /\ spiral' = spiral_tile_anchors(m, n, TILE_SIZES[sizeIdx + 1])
    /\ ai' = 1
    /\ passLog' = Append(passLog, [size |-> TILE_SIZES[sizeIdx + 1],
                                    nsteps |-> Len(steps),
                                    grid |-> heap[grid]])
    /\ UNCHANGED <<m, n, pc, err, heap, grid, steps, log>>

\* the anchor the inner loop is at
AnchorX == spiral[ai][1]

AnchorY == spiral[ai][2]

AtAnchor == pc = "loop" /\ ai <= Len(spiral)

AnchorIndexOK == IndexOK(AnchorX, m) /\ IndexOK(AnchorY, n)

\* size == 1, the cell is empty: grid[x, y] = 1; steps.append(grid.copy())
PlaceUnit ==
    /\ AtAnchor
    /\ size = 1
    /\ AnchorIndexOK
    /\ UnitFree(heap[grid], AnchorX, AnchorY, m, n)
    /\ LET after == SetCell(heap[grid], AnchorX, AnchorY, m, n)
           cp == GridCopy([heap EXCEPT ![grid] = after], grid)
       IN  /\ heap' = cp.heap
           /\ steps' = Append(steps, cp.ref)
           /\ log' = Append(log, [size |-> size, x |-> AnchorX, y |-> AnchorY,
                                   before |-> heap[grid], after |-> after])
    /\ ai' = ai + 1
    /\ UNCHANGED <<m, n, pc, err, grid, sizeIdx, spiral, passLog>>

\* size > 1, the footprint is in bounds and empty:
\* grid[x:x+size, y:y+size] = size; steps.append(grid.copy())
PlaceTile ==
    /\ AtAnchor
    /\ size # 1
    /\ AnchorIndexOK
    /\ CanPlaceAt(heap[grid], AnchorX, AnchorY, size, m, n)
    /\ LET after == SetSlice(heap[grid], AnchorX, AnchorY, size, m, n)
           cp == GridCopy([heap EXCEPT ![grid] = after], grid)
       IN  /\ heap' = cp.heap
           /\ steps' = Append(steps, cp.ref)
           /\ log' = Append(log, [size |-> size, x |-> AnchorX, y |-> AnchorY,
                                   before |-> heap[grid], after |-> after])
    /\ ai' = ai + 1
    /\ UNCHANGED <<m, n, pc, err, grid, sizeIdx, spiral, passLog>>

\* the anchor is not usable: nothing is placed (grid[x, y] raises IndexError
\* when the anchor is not a legal index)
SkipAnchor ==
    /\ AtAnchor
    /\ IF ~AnchorIndexOK
       THEN /\ pc' = "error"
            /\ err' = "IndexError"
            /\ UNCHANGED ai
       ELSE /\ IF size = 1
               THEN ~UnitFree(heap[grid], AnchorX, AnchorY, m, n)
               ELSE ~CanPlaceAt(heap[grid], AnchorX, AnchorY, size, m, n)
            /\ ai' = ai + 1
            /\ UNCHANGED <<pc, err>>
    /\ UNCHANGED <<m, n, heap, grid, steps, sizeIdx, spiral, log, passLog>>

\* return steps
Return ==
    /\ pc = "loop"
    /\ ai > Len(spiral)
    /\ sizeIdx = Len(TILE_SIZES)
    /\ pc' = "done"
    /\ UNCHANGED <<m, n, err, heap, grid, steps, sizeIdx, spiral, ai, log, passLog>>

Next ==
    \/ ZerosRaises
    \/ Start
    \/ NextSize
    \/ PlaceUnit
    \/ PlaceTile
    \/ SkipAnchor
    \/ Return

Spec == Init /\ [][Next]_vars

\* the function is sequential code: it keeps running until it returns or raises
FairSpec == Spec /\ WF_vars(Next)

----------------------------------------------------------------------------
\* Vocabulary of the properties

Rows == 0..(m - 1)

Cols == 0..(n - 1)

\* the k-th element of the returned list, as it reads now
Snap(k) == heap[steps[k]]

\* the grid state that precedes the k-th element of the output
Before(k) == IF k = 1 THEN np_zeros(m, n) ELSE Snap(k - 1)

NonZeroCount(g) == Cardinality({rc \in Rows \X Cols : g[rc[1]][rc[2]] # 0})

ZeroCount(g) == Cardinality({rc \in Rows \X Cols : g[rc[1]][rc[2]] = 0})

Covered(g) == \A r \in Rows : \A c \in Cols : g[r][c] # 0

\* the s x s square anchored at (r, c)
InSquare(i, j, r, c, s) == r <= i /\ i < r + s /\ c <= j /\ j < c + s

\* cur is prev plus one s x s tile at (r, c) written into empty cells only
IsPlacement(prev, cur, r, c, s) ==
    \A i \in Rows : \A j \in Cols :
        IF InSquare(i, j, r, c, s)
        THEN prev[i][j] = 0 /\ cur[i][j] = s
        ELSE cur[i][j] = prev[i][j]

\* the sizes that the k-th snapshot writes into cells that were empty
IntroducedSizes(k) ==
    {s \in 1..4 : \E r \in Rows : \E c \in Cols :
        Before(k)[r][c] = 0 /\ Snap(k)[r][c] = s}

\* some in-bounds t x t square of g is entirely empty
FitsSomewhere(g, t) ==
    \E r \in 0..(m - t) : \E c \in 0..(n - t) :
        \A i \in r..(r + t - 1) : \A j \in c..(c + t - 1) : g[i][j] = 0

\* the number of snapshots when pass i of passLog ended
PassEnd(i) == IF i < Len(passLog) THEN passLog[i + 1].nsteps ELSE Len(steps)

PassOver(i) == i < Len(passLog) \/ pc = "done"

Positive == m >= 1 /\ n >= 1

Degenerate == (m = 0 \/ n = 0) /\ m >= 0 /\ n >= 0

----------------------------------------------------------------------------
\* C1: for every H, W >= 1 the function terminates, and when it has returned
\* the snapshot sequence is non-empty and its last snapshot has no empty cell.
C1_FullCoverage ==
    /\ [](pc = "done" /\ Positive =>
            Len(steps) >= 1 /\ Covered(Snap(Len(steps))))
    /\ (Positive ~> pc = "done")

C1_Witness ==
    pc = "done" /\ m = 3 /\ n = 5 /\ Len(steps) = 7 /\ Covered(Snap(7))

\* C2: every snapshot differs from the grid state before it (the all-zero grid
\* for the first) by exactly one in-bounds s x s square, s in {4,3,2,1}, whose
\* cells were all 0 before and are all s after, every other cell unchanged; the
\* count of nonzero cells grows by exactly s*s.
C2_DisjointPlacement ==
    \A k \in 1..Len(steps) :
        \E s \in {4, 3, 2, 1} : \E r \in 0..(m - s) : \E c \in 0..(n - s) :
            /\ IsPlacement(Before(k), Snap(k), r, c, s)
            /\ NonZeroCount(Snap(k)) = NonZeroCount(Before(k)) + s * s

C2_Witness ==
    /\ pc = "done" /\ m = 5 /\ n = 5 /\ Len(steps) = 10
    /\ IsPlacement(Before(1), Snap(1), 1, 0, 4)
    /\ IsPlacement(Before(10), Snap(10), 0, 0, 1)

\* C3: at the moment a tile of size s is placed, no larger size t in {2,3,4}
\* has an entirely empty in-bounds t x t square anywhere in the grid.
C3_LargestThatFits ==
    \A k \in 1..Len(log) :
        \A t \in {2, 3, 4} :
            t > log[k].size => ~FitsSomewhere(log[k].before, t)

\* C4: the passes run in the order 4, 3, 2, 1, a pass begins only when every
\* anchor of the pass before it has been tried, and the sizes introduced by
\* successive snapshots never increase.
C4_SizeOrder ==
    /\ [](/\ Len(passLog) <= 4
          /\ \A i \in 1..Len(passLog) : passLog[i].size = 5 - i
          /\ \A k1 \in 1..Len(steps) : \A k2 \in k1..Len(steps) :
                \A s1 \in IntroducedSizes(k1) : \A s2 \in IntroducedSizes(k2) :
                    s1 >= s2)
    /\ [][sizeIdx' # sizeIdx => ai > Len(spiral) /\ sizeIdx' = sizeIdx + 1]_vars

C4_Witness ==
    /\ pc = "done" /\ m = 6 /\ n = 5
    /\ \E k \in 1..(Len(steps) - 2) :
          /\ IntroducedSizes(k) = {4}
          /\ IntroducedSizes(k + 1) = {2}
          /\ IntroducedSizes(Len(steps)) = {1}

\* C5: every snapshot in the output still equals the grid as it was right
\* after the placement that produced it; later placements change none of it.
C5_IndependentSnapshots ==
    /\ Len(steps) = Len(log)
    /\ \A k \in 1..Len(steps) : Snap(k) = log[k].after

C5_Witness ==
    /\ pc = "done" /\ Len(steps) >= 3
    /\ Snap(1) # Snap(2) /\ Snap(2) # Snap(Len(steps))
    /\ Snap(1) = log[1].after

\* C6: once the size-1 pass is over, the number of snapshots it appended is
\* the number of cells that were 0 when it began, and each of those cells
\* was filled by exactly one size-1 placement.
C6_UnitPass ==
    Positive =>
        \A i \in 1..Len(passLog) :
            (passLog[i].size = 1 /\ PassOver(i)) =>
                /\ PassEnd(i) - passLog[i].nsteps = ZeroCount(passLog[i].grid)
                /\ \A r \in Rows : \A c \in Cols :
                      passLog[i].grid[r][c] = 0 =>
                          Cardinality({k \in (passLog[i].nsteps + 1)..PassEnd(i) :
                              Before(k)[r][c] = 0 /\ Snap(k)[r][c] = 1}) = 1

C6_Witness ==
    /\ pc = "done" /\ m = 3 /\ n = 5
    /\ passLog[4].size = 1 /\ passLog[4].nsteps = 1
    /\ ZeroCount(passLog[4].grid) = 6
    /\ Len(steps) = 7

\* C7 as stated: for H = 5, W = 5 the size-4 anchor sequence is the single
\* anchor (1,1), one 4x4 tile is placed with its top-left at (row 1, col 1),
\* and the final snapshot has all 25 cells nonzero.
C7_AnchorOneOne ==
    (m = 5 /\ n = 5) =>
        /\ size = 4 => spiral = << <<1, 1>> >>
        /\ pc = "done" =>
              /\ Cardinality({k \in 1..Len(steps) : 4 \in IntroducedSizes(k)}) = 1
              /\ IsPlacement(Before(1), Snap(1), 1, 1, 4)
              /\ NonZeroCount(Snap(Len(steps))) = 25

\* C7 amended: for H = 5, W = 5 the size-4 anchor sequence is the single
\* anchor (1,0), one 4x4 tile is placed with its top-left at (row 1, col 0),
\* and the final snapshot has all 25 cells nonzero.
C7_AnchorOneZero ==
    (m = 5 /\ n = 5) =>
        /\ size = 4 => spiral = << <<1, 0>> >>
        /\ pc = "done" =>
              /\ Cardinality({k \in 1..Len(steps) : 4 \in IntroducedSizes(k)}) = 1
              /\ IsPlacement(Before(1), Snap(1), 1, 0, 4)
              /\ NonZeroCount(Snap(Len(steps))) = 25

C7_Witness ==
    /\ pc = "done" /\ m = 5 /\ n = 5
    /\ log[1].size = 4 /\ log[1].x = 1 /\ log[1].y = 0
    /\ Covered(Snap(Len(steps)))

\* C8: with a width or height that is zero or negative the call ends in an
\* error raised before any placement, never in a normal return, and no
\* snapshot is produced.
C8_InvalidDimension ==
    ((m <= 0 \/ n <= 0) /\ pc \in {"done", "error"}) =>
        pc = "error" /\ err # "none" /\ steps = << >> /\ log = << >>

\* C9: with H = 0 or W = 0 (the other >= 0) the call returns normally with an
\* empty snapshot sequence: every size has an empty anchor sequence, the grid
\* is never written and no snapshot is emitted.
C9_DegenerateEmpty ==
    /\ [](Degenerate =>
            /\ pc # "error"
            /\ spiral = << >>
            /\ steps = << >>
            /\ log = << >>
            /\ pc # "call" => heap = <<np_zeros(m, n)>>)
    /\ (Degenerate ~> (pc = "done" /\ steps = << >>))

C9_Witness ==
    pc = "done" /\ m = 0 /\ n = 5 /\ sizeIdx = 4 /\ steps = << >>

\* C10: for H, W >= 0 every anchor (r, c) of every size s satisfies
\* 0 <= r <= H - s and 0 <= c <= W - s, so the anchor is a legal index and the
\* bounds test of the placement condition holds; the anchor sequence is empty
\* when s > H or s > W.
C10_AnchorsInBounds ==
    (m >= 0 /\ n >= 0 /\ sizeIdx >= 1) =>
        /\ \A i \in 1..Len(spiral) :
              /\ 0 <= spiral[i][1] /\ spiral[i][1] <= m - size
              /\ 0 <= spiral[i][2] /\ spiral[i][2] <= n - size
        /\ (size > m \/ size > n) => spiral = << >>
        /\ err # "IndexError"

C10_Witness ==
    /\ pc = "loop" /\ m = 3 /\ n = 5 /\ size = 2
    /\ spiral = << <<1, 0>>, <<1, 2>>, <<0, 1>> >>
    /\ ai = 4

====
